---- MODULE Spec2Model ----
(***************************************************************************)
(* Model of toys/posix/xargs.c: the input stream is a sequence of bytes,   *)
(* a C string is a sequence of bytes read up to its first NUL, and one     *)
(* action stands for each block of xargs_main that ends where the tty or   *)
(* the child answers: forming a batch, the y/n answer, the child's status. *)
(***************************************************************************)
EXTENDS Integers, Sequences, FiniteSets, TLC

\* ------------------------------------------------------------------ bounds
\* Number of chunks the input stream is made of.
MaxChunks == 3
\* Length of the one long run of bytes a chunk can be.
LongLen == 10
\* sizeof(void *) and sizeof(char *)
PtrSize == 8

\* ------------------------------------------------------------------- bytes
\* Bytes are strings: "a" and "b" are ordinary bytes, "SP" a blank, "NL" a
\* newline and "NUL" the zero byte.
isspace(c) == c \in {"SP", "NL"}

\* *(buf+i-1): a buffer is followed by its terminating NUL.
At(buf, i) == IF i <= Len(buf) THEN buf[i] ELSE "NUL"

RECURSIVE StrEnd(_, _)
\* Index of the first NUL at or after i.
StrEnd(buf, i) == IF At(buf, i) = "NUL" THEN i ELSE StrEnd(buf, i + 1)

strlen(buf, i) == StrEnd(buf, i) - i

\* The C string that starts at buf+i-1.
CStr(buf, i) == SubSeq(buf, i, StrEnd(buf, i) - 1)

xstrdup(buf, i) == CStr(buf, i)

\* strstart(&ss, E): does the string at ss start with E.
strstart(buf, ss, E) == \A k \in 1..Len(E) : At(buf, ss + k - 1) = E[k]

\* getdelim(): the bytes up to and including the first delim, or all of the
\* stream when it holds no delim; fails on an empty stream.
getdelim(stream, delim) ==
  IF stream = <<>> THEN [ok |-> FALSE, line |-> <<>>, rest |-> <<>>]
  ELSE LET hits == {k \in 1..Len(stream) : stream[k] = delim}
           k == IF hits = {} THEN Len(stream)
                ELSE CHOOSE h \in hits : \A g \in hits : h <= g
       IN [ok |-> TRUE, line |-> SubSeq(stream, 1, k),
           rest |-> SubSeq(stream, k + 1, Len(stream))]

\* ------------------------------------------------------------------ options
FLAG(t, x) == x \in t.optflags

\* An optional pointer: <<>> is NULL, <<v>> points at v.
NULL == <<>>

Echo == <<"e", "c", "h", "o">>

\* ----------------------------------------------------------- handle_entries
\* Return values: 0 (need more data), a pointer into data (left over from
\* offset off on), 1 (limits hit, all data consumed), 2 (hit -E STR).
RetNull == [kind |-> "null", off |-> 0]
RetPtr(off) == [kind |-> "ptr", off |-> off]
RetOne == [kind |-> "one", off |-> 0]
RetTwo == [kind |-> "two", off |-> 0]

RECURSIVE SkipSpace(_, _)
\* while (isspace(*s)) s++;
SkipSpace(buf, s) == IF isspace(At(buf, s)) THEN SkipSpace(buf, s + 1) ELSE s

\* Mutant: the size test lets the limit itself through.
HitSize_Late(bytes, lim) == bytes > lim

\* if (++TT.bytes >= TT.s) return save;
HitSize(bytes, lim) == bytes >= lim

RECURSIVE ScanToken(_, _, _, _)
\* for (;;) { if (++TT.bytes >= TT.s) return save;
\*            if (!*s || isspace(*s)) break; s++; }
ScanToken(buf, s, bytes, lim) ==
  IF HitSize(bytes + 1, lim) THEN [hit |-> TRUE, s |-> s, bytes |-> bytes + 1]
  ELSE IF At(buf, s) = "NUL" \/ isspace(At(buf, s))
       THEN [hit |-> FALSE, s |-> s, bytes |-> bytes + 1]
       ELSE ScanToken(buf, s + 1, bytes + 1, lim)

\* Mutant: the count test lets one entry more through.
HitCount_Late(T) == T.n # 0 /\ T.entries > T.n

\* TT.n && TT.entries >= TT.n
HitCount(T) == T.n # 0 /\ T.entries >= T.n

\* TT.E && strstart(&ss, TT.E) && ss == s
IsStop(T, buf, save, s) ==
  T.E # NULL /\ strstart(buf, save, T.E[1]) /\ save + Len(T.E[1]) = s

RECURSIVE ChopEntries(_, _, _, _, _, _)
\* The whitespace loop of handle_entries, from the test of *s on. fill is
\* "entry != 0"; ents collects the stores entry[idx] = data+off-1.
ChopEntries(T, fs, fill, buf, s, ents) ==
  IF At(buf, s) = "NUL"
  THEN [ret |-> RetNull, TT |-> T, buf |-> buf, ents |-> ents]
  ELSE
    LET s1 == SkipSpace(buf, s) IN
    IF HitCount(T)
    THEN [ret |-> IF At(buf, s1) # "NUL" THEN RetPtr(s1) ELSE RetOne,
          TT |-> T, buf |-> buf, ents |-> ents]
    ELSE IF At(buf, s1) = "NUL"
    THEN [ret |-> RetNull, TT |-> T, buf |-> buf, ents |-> ents]
    ELSE
      LET b1 == T.bytes + (IF fs THEN 0 ELSE PtrSize + 1)
          sc == ScanToken(buf, s1, b1, T.s)
          T1 == [T EXCEPT !.bytes = sc.bytes]
      IN
      IF sc.hit
      THEN [ret |-> RetPtr(s1), TT |-> T1, buf |-> buf, ents |-> ents]
      ELSE IF IsStop(T, buf, s1, sc.s)
      THEN [ret |-> RetTwo, TT |-> T1, buf |-> buf, ents |-> ents]
      ELSE
        LET term == fill /\ At(buf, sc.s) # "NUL"
            buf2 == IF term THEN [buf EXCEPT ![sc.s] = "NUL"] ELSE buf
            s2 == IF term THEN sc.s + 1 ELSE sc.s
            ents2 == IF fill
                     THEN Append(ents, [idx |-> T.entries, off |-> s1])
                     ELSE ents
        IN ChopEntries([T1 EXCEPT !.entries = @ + 1], fs, fill, buf2, s2, ents2)

\* The -0 branch of handle_entries.
NulEntry(T, fill, buf) ==
  LET bytes == T.bytes + PtrSize + strlen(buf, 1) + 1 IN
  IF HitSize(bytes, T.s) \/ HitCount(T)
  THEN [ret |-> RetPtr(1), TT |-> T, buf |-> buf, ents |-> <<>>]
  ELSE [ret |-> RetNull,
        TT |-> [T EXCEPT !.bytes = bytes, !.entries = @ + 1],
        buf |-> buf,
        ents |-> IF fill THEN <<[idx |-> T.entries, off |-> 1]>> ELSE <<>>]

\* handle_entries(data, entry) on the globals T (TT) and t (toys).
handle_entries(T, t, buf, fill) ==
  IF T.delim # "NUL"
  THEN ChopEntries(T, FLAG(t, "s"), fill, buf, 1, <<>>)
  ELSE NulEntry(T, fill, buf)

\* ------------------------------------------------------------------- state
VARIABLES
  toys,     \* toys.optflags, toys.optargs, toys.optc, toys.exitval
  TT,       \* GLOBALS: s, n, E, entries, bytes, delim
  stdin,    \* the bytes of standard input not read yet
  dlist,    \* the buffered lines of this cycle, in dlist_add order
  entries,  \* xargs_main's entries: the length of the command template
  bytes,    \* xargs_main's bytes: the byte count of the command template
  done,     \* xargs_main's done
  data,     \* xargs_main's data: NULL or the left over string
  out,      \* the argument vector: NULL or <<vector of pointers>>
  pid,      \* xargs_main's pid: 0 until the first fork
  pc,       \* where xargs_main stands
  errmsg,   \* the message of error_exit, "" when there was none
  overrun,  \* a store through entry[] fell outside the allocated vector
  hist,     \* one record for each command line put to the tty or forked
  input     \* what standard input held at the start

vars == <<toys, TT, stdin, dlist, entries, bytes, done, data, out, pid, pc,
          errmsg, overrun, hist, input>>

\* --------------------------------------------------------------- the inputs
Long == [i \in 1..LongLen |-> "a"]

\* Input in whitespace mode is text: it holds no NUL byte.
WsChunks == {<<"a">>, <<"b">>, <<"SP">>, <<"NL">>, Long}
NulChunks == {<<"a">>, <<"SP">>, <<"NUL">>}

RECURSIVE Flatten(_)
Flatten(ss) == IF ss = <<>> THEN <<>> ELSE Head(ss) \o Flatten(Tail(ss))

Inputs(C) == {Flatten(cs) : cs \in UNION {[1..k -> C] : k \in 0..MaxChunks}}

\* -s NUM as given on the command line. Under -0 an entry costs at least
\* sizeof(char *)+1, so the values tried there are larger.
SizeArgs(f0) == IF f0 THEN {15, 25} ELSE {7, 9}
\* sysconf(_SC_ARG_MAX) - environ_bytes() - 4096 depends on the environment.
ComputedSizes == {32}
\* -n NUM, 0 when -n is not given (the option string demands NUM >= 1).
CountArgs == {0, 1, 2}
\* -E STR, NULL when not given; the option string excludes -E with -0.
StopArgs == {NULL, <<(<<"b">>)>>}

\* What a child can report to waitpid().
ExitCodes == {0, 1, 126, 127, 128, 255}
Statuses == [exited : {TRUE}, code : ExitCodes] \cup [exited : {FALSE}, code : {9}]

\* ------------------------------------------------------------- xargs_main
RECURSIVE TemplateBytes(_, _, _)
\* for (entries = 0, bytes = -1; entries < toys.optc; entries++)
\*   bytes += strlen(toys.optargs[entries])+1+sizeof(char *)*!FLAG(s);
TemplateBytes(args, fs, k) ==
  IF k = 0 THEN -1
  ELSE TemplateBytes(args, fs, k - 1) + Len(args[k]) + 1 + (IF fs THEN 0 ELSE PtrSize)

\* The options as parsed, then lines 106-120: xargs_main stands at the loop
\* of line 123. No COMMAND is given, so the template is echo; the sizes
\* tried all leave room for it ("command too long" is not raised).
Init ==
  \E f0 \in BOOLEAN, fr \in BOOLEAN, fp \in BOOLEAN, fs \in BOOLEAN,
     n \in CountArgs, E \in StopArgs :
    /\ f0 => E = NULL
    /\ \E in \in Inputs(IF f0 THEN NulChunks ELSE WsChunks) :
         /\ stdin = in
         /\ input = in
    /\ toys = [optflags |-> (IF f0 THEN {"0"} ELSE {}) \cup (IF fr THEN {"r"} ELSE {})
                            \cup (IF fp THEN {"p"} ELSE {}) \cup (IF fs THEN {"s"} ELSE {})
                            \cup (IF n # 0 THEN {"n"} ELSE {}) \cup (IF E # NULL THEN {"E"} ELSE {}),
               optargs |-> <<Echo>>, optc |-> 1, exitval |-> 0]
    /\ entries = 1
    /\ bytes = TemplateBytes(<<Echo>>, fs, 1)
    /\ \E sz \in (IF fs THEN SizeArgs(f0) ELSE ComputedSizes) :
         /\ bytes < sz
         /\ TT = [s |-> sz, n |-> n, E |-> E, entries |-> 0, bytes |-> 0,
                  delim |-> IF f0 THEN "NUL" ELSE "NL"]
    /\ dlist = <<>>
    /\ done = 0
    /\ data = NULL
    /\ out = NULL
    /\ pid = 0
    /\ pc = "loop"
    /\ errmsg = ""
    /\ overrun = FALSE
    /\ hist = <<>>

\* while (data || !done)
LoopCond(d, dn) == d # NULL \/ dn = 0

\* Where the loop test of line 123 leads: into the loop, or past it to the
\* end of xargs_main.
LoopTest(d, dn) == IF LoopCond(d, dn) THEN "loop" ELSE "done"

\* Mutant: the left over string is copied from one byte too far.
LeftOver_Skips(line, ret) ==
  IF ret.kind = "ptr" THEN <<xstrdup(line, ret.off + 1)>> ELSE NULL

\* What one turn of the loop reading input leaves in data and done, given
\* the return value of handle_entries (lines 143-146).
LeftOver(line, ret) == IF ret.kind = "ptr" THEN <<xstrdup(line, ret.off)>> ELSE NULL

\* Mutant: done is not raised when the stop string is met.
StopDone_Forgot(ret, dn) == dn

\* if (data == (char *)2) done++;
StopDone(ret, dn) == IF ret.kind = "two" THEN dn + 1 ELSE dn

\* Mutant: done is not raised when the input has ended.
EofDone_Forgot(dn) == dn

\* getdelim() failed: done++ (line 136).
EofDone(dn) == dn + 1

RECURSIVE ReadLoop(_, _, _, _, _, _)
\* Lines 128-149: the loop reading input, run until its break.
ReadLoop(T, t, stream, dl, d, dn) ==
  LET g == getdelim(stream, T.delim)
      line == IF d = NULL THEN g.line ELSE d[1]
      r == handle_entries(T, t, line, FALSE)
      stream2 == IF d = NULL THEN g.rest ELSE stream
  IN IF d = NULL /\ ~g.ok
     THEN [TT |-> T, stdin |-> stream, dlist |-> dl, data |-> NULL, done |-> EofDone(dn)]
     ELSE IF r.ret.kind = "null"
     THEN ReadLoop(r.TT, t, stream2, Append(dl, line), NULL, dn)
     ELSE [TT |-> r.TT, stdin |-> stream2, dlist |-> Append(dl, line),
           data |-> LeftOver(line, r.ret),
           done |-> StopDone(r.ret, dn)]

\* Pointers held in the argument vector.
NullPtr == [seg |-> "null", idx |-> 0, off |-> 0]
OptPtr(j) == [seg |-> "optargs", idx |-> j, off |-> 1]
LinePtr(k, off) == [seg |-> "dlist", idx |-> k, off |-> off]

\* The string a pointer of the vector points at.
Deref(p, t, dl) ==
  IF p.seg = "optargs" THEN t.optargs[p.idx] ELSE CStr(dl[p.idx], p.off)

\* The strings of a vector up to its first NULL, as fprintf and exec read it.
Argv(o, t, dl) ==
  LET nulls == {i \in 1..Len(o) : o[i] = NullPtr}
      n == IF nulls = {} THEN Len(o)
           ELSE (CHOOSE i \in nulls : \A j \in nulls : i <= j) - 1
  IN [i \in 1..n |-> Deref(o[i], t, dl)]

\* The stores entry[e.idx] = data+e.off-1 of one handle_entries call on
\* node k, entry being out+base.
Store(o, base, k, ents) ==
  [i \in 1..Len(o) |->
     IF \E j \in 1..Len(ents) : base + ents[j].idx + 1 = i
     THEN LinePtr(k, ents[CHOOSE j \in 1..Len(ents) : base + ents[j].idx + 1 = i].off)
     ELSE o[i]]

Outside(o, base, ents) == \E j \in 1..Len(ents) : base + ents[j].idx + 1 > Len(o)

RECURSIVE FillPass(_, _, _, _, _, _, _)
\* for (dtemp = dlist; dtemp; dtemp = dtemp->next)
\*   handle_entries(dtemp->data, out+entries);
FillPass(T, t, dl, o, base, k, over) ==
  IF k > Len(dl) THEN [TT |-> T, dlist |-> dl, out |-> o, overrun |-> over]
  ELSE LET r == handle_entries(T, t, dl[k], TRUE)
       IN FillPass(r.TT, t, [dl EXCEPT ![k] = r.buf], Store(o, base, k, r.ents),
                   base, k + 1, over \/ Outside(o, base, r.ents))

\* Mutant: the vector is allocated without the slot of the end marker.
Alloc_NoEndSlot(n, count) == [i \in 1..(n + count) |-> IF i <= n THEN OptPtr(i) ELSE NullPtr]

\* out = xzalloc((entries+TT.entries+1)*sizeof(char *));
\* memcpy(out, toys.optargs, entries*sizeof(char *));
Alloc(n, count) == [i \in 1..(n + count + 1) |-> IF i <= n THEN OptPtr(i) ELSE NullPtr]

\* Mutant: -r is not looked at.
EmptyBatch_IgnoresR(T, t, d, p) ==
  IF T.entries # 0 THEN "fill"
  ELSE IF d # NULL THEN "error"
  ELSE IF p # 0 THEN "return"
  ELSE "fill"

\* Mutant: a left over string with an empty batch is not an error.
EmptyBatch_NoError(T, t, d, p) ==
  IF T.entries # 0 THEN "fill"
  ELSE IF p # 0 THEN "return"
  ELSE IF FLAG(t, "r") THEN "continue"
  ELSE "fill"

\* Mutant: an empty batch after a child was run is made up all the same.
EmptyBatch_NoPidTest(T, t, d, p) ==
  IF T.entries # 0 THEN "fill"
  ELSE IF d # NULL THEN "error"
  ELSE IF FLAG(t, "r") THEN "continue"
  ELSE "fill"

\* Lines 151-155: what an empty batch leads to; "fill" is to go on.
EmptyBatch(T, t, d, p) ==
  IF T.entries # 0 THEN "fill"
  ELSE IF d # NULL THEN "error"
  ELSE IF p # 0 THEN "return"
  ELSE IF FLAG(t, "r") THEN "continue"
  ELSE "fill"

\* error_exit(): the message is printed, the exit value is raised from 0 to
\* 1, and the process ends.
error_exit(t) == [t EXCEPT !.exitval = IF @ = 0 THEN 1 ELSE @]

\* Lines 124-164: one turn of the loop through exec chunks, up to the
\* command line filled out.
ReadBatch ==
  /\ pc = "loop"
  /\ \E rd \in {ReadLoop([TT EXCEPT !.entries = 0, !.bytes = bytes], toys, stdin,
                         dlist, data, done)} :
       /\ stdin' = rd.stdin
       /\ data' = rd.data
       /\ done' = rd.done
       /\ \E way \in {EmptyBatch(rd.TT, toys, rd.data, pid)} :
            IF way = "fill"
            THEN \E f \in {FillPass([rd.TT EXCEPT !.entries = 0, !.bytes = bytes],
                                    toys, rd.dlist, Alloc(entries, rd.TT.entries),
                                    entries, 1, FALSE)} :
                   /\ TT' = f.TT
                   /\ dlist' = f.dlist
                   /\ out' = <<f.out>>
                   /\ overrun' = (overrun \/ f.overrun)
                   /\ pc' = IF FLAG(toys, "p") THEN "confirm" ELSE "fork"
                   /\ errmsg' = errmsg
                   /\ toys' = toys
            ELSE /\ TT' = rd.TT
                 /\ dlist' = rd.dlist
                 /\ UNCHANGED <<out, overrun>>
                 /\ errmsg' = IF way = "error" THEN "argument too long" ELSE errmsg
                 /\ toys' = IF way = "error" THEN error_exit(toys) ELSE toys
                 /\ pc' = CASE way = "error" -> "exit"
                            [] way = "return" -> "done"
                            [] way = "continue" -> LoopTest(rd.data, rd.done)
  /\ UNCHANGED <<entries, bytes, pid, hist, input>>

\* Mutant: a declined command line goes to the loop test past the skip:
\* block, keeping the buffered lines and the vector.
Confirm_KeepsList ==
  /\ pc = "confirm"
  /\ \E yes \in BOOLEAN :
       IF yes
       THEN /\ pc' = "fork"
            /\ UNCHANGED hist
       ELSE /\ hist' = Append(hist, [argv |-> Argv(out[1], toys, dlist), ran |-> FALSE,
                                     exited |-> FALSE, code |-> 0])
            /\ pc' = LoopTest(data, done)
  /\ UNCHANGED <<toys, TT, stdin, dlist, out, entries, bytes, done, data, pid, errmsg,
                 overrun, input>>

\* Lines 170-173, and on "no" the skip: block and the loop test.
Confirm ==
  /\ pc = "confirm"
  /\ \E yes \in BOOLEAN :
       IF yes
       THEN /\ pc' = "fork"
            /\ UNCHANGED <<hist, dlist, out>>
       ELSE /\ hist' = Append(hist, [argv |-> Argv(out[1], toys, dlist), ran |-> FALSE,
                                     exited |-> FALSE, code |-> 0])
            /\ dlist' = <<>>
            /\ out' = NULL
            /\ pc' = LoopTest(data, done)
  /\ UNCHANGED <<toys, TT, stdin, entries, bytes, done, data, pid, errmsg,
                 overrun, input>>

\* Mutant: a child that exits with 255 does not end the run.
Returns_No255(st) == st.exited /\ st.code \in {126, 127}

\* Mutant: any child that fails ends the run.
Returns_AnyFailure(st) == ~st.exited \/ st.code # 0

\* Does xargs_main return right after a child reported st.
Returns(st) == st.exited /\ st.code \in {126, 127, 255}

\* Mutant: a child that exits with 0 or with 128..254 clears the exit value.
ExitVal_LastWins(old, st) ==
  IF st.exited
  THEN IF st.code = 126 \/ st.code = 127 THEN st.code
       ELSE IF st.code >= 1 /\ st.code <= 125 THEN 123
       ELSE IF st.code = 255 THEN 124
       ELSE 0
  ELSE 127

\* toys.exitval after a child reported st (lines 186-197).
ExitVal(old, st) ==
  IF st.exited
  THEN IF st.code = 126 \/ st.code = 127 THEN st.code
       ELSE IF st.code >= 1 /\ st.code <= 125 THEN 123
       ELSE IF st.code = 255 THEN 124
       ELSE old
  ELSE 127

\* Lines 177-204: fork, exec, wait, the exit value, and unless xargs_main
\* returns the skip: block and the loop test.
Fork ==
  /\ pc = "fork"
  /\ \E st \in Statuses :
       /\ pid' = 1
       /\ hist' = Append(hist, [argv |-> Argv(out[1], toys, dlist), ran |-> TRUE,
                                exited |-> st.exited, code |-> st.code])
       /\ toys' = [toys EXCEPT !.exitval = ExitVal(@, st)]
       /\ IF Returns(st)
          THEN /\ pc' = "done"
               /\ UNCHANGED <<dlist, out>>
          ELSE /\ dlist' = <<>>
               /\ out' = NULL
               /\ pc' = LoopTest(data, done)
  /\ UNCHANGED <<TT, stdin, entries, bytes, done, data, errmsg, overrun, input>>

Next == ReadBatch \/ Confirm \/ Fork

Spec == Init /\ [][Next]_vars

\* ------------------------------------------------- the terms of the claims
RECURSIVE RunEnd(_, _, _)
\* The first index from i on where the bytes stop being whitespace (w) or
\* stop being other bytes (~w); Len(in)+1 when they do not.
RunEnd(in, i, w) ==
  IF i > Len(in) \/ ((in[i] \in {"SP", "NL"}) # w) THEN i ELSE RunEnd(in, i + 1, w)

RECURSIVE WsTokensFrom(_, _)
WsTokensFrom(in, i) ==
  LET start == RunEnd(in, i, TRUE)
      end == RunEnd(in, start, FALSE)
  IN IF start > Len(in) THEN <<>>
     ELSE <<SubSeq(in, start, end - 1)>> \o WsTokensFrom(in, end)

\* The tokens of a byte stream in whitespace mode: the maximal runs of
\* bytes that are not whitespace.
WsTokens(in) == WsTokensFrom(in, 1)

RECURSIVE NulEnd(_, _)
\* The index of the first NUL from i on, Len(in)+1 when there is none.
NulEnd(in, i) == IF i > Len(in) \/ in[i] = "NUL" THEN i ELSE NulEnd(in, i + 1)

RECURSIVE NulTokensFrom(_, _)
NulTokensFrom(in, i) ==
  LET end == NulEnd(in, i)
  IN IF i > Len(in) THEN <<>>
     ELSE <<SubSeq(in, i, end - 1)>> \o NulTokensFrom(in, end + 1)

\* The tokens of a byte stream in null-delimited mode: each NUL ends a token,
\* and bytes after the last NUL make a last token.
NulTokens(in) == NulTokensFrom(in, 1)

InputTokens == IF FLAG(toys, "0") THEN NulTokens(input) ELSE WsTokens(input)

\* Indices of the tokens equal to the stop string.
StopAt == IF TT.E = NULL THEN {}
          ELSE {i \in 1..Len(InputTokens) : InputTokens[i] = TT.E[1]}

FirstOf(S) == CHOOSE i \in S : \A j \in S : i <= j

\* The input tokens before the first stop token.
Expected ==
  IF StopAt = {} THEN InputTokens ELSE SubSeq(InputTokens, 1, FirstOf(StopAt) - 1)

\* The tokens a command line appends to the template.
BatchTokens(h) == SubSeq(h.argv, toys.optc + 1, Len(h.argv))

RECURSIVE Handed(_)
\* The tokens of the command lines made up so far, in order.
Handed(hs) == IF hs = <<>> THEN <<>> ELSE BatchTokens(Head(hs)) \o Handed(Tail(hs))

IsPrefix(p, q) == Len(p) <= Len(q) /\ SubSeq(q, 1, Len(p)) = p

\* A child ended the run: the last command line ran and reported 126, 127
\* or 255.
Fatal(h) == h.ran /\ h.exited /\ h.code \in {126, 127, 255}
CutShort == hist # <<>> /\ Fatal(hist[Len(hist)])

\* xargs_main returned with all input dealt with.
Finished == pc = "done" /\ ~CutShort

\* ---------------------------------------------------------------- claims
\* C1: the tokens of the command lines made up by the loop, taken in order,
\* are at every moment a prefix of the input tokens before the first stop
\* token, and are all of them once xargs_main has returned with the input
\* dealt with: none lost, doubled or out of order, left over ones included.
C1_TokensInOrder ==
  LET got == Handed(hist)
      all == Expected
  IN /\ IsPrefix(got, all)
     /\ Finished => got = all

\* A one-line input made two non-empty batches: the second starts with the
\* token left over from the first.
C1_LeftOverCarried ==
  /\ Finished
  /\ ~FLAG(toys, "0")
  /\ \A i \in 1..Len(input) : input[i] # "NL"
  /\ Len(hist) >= 2
  /\ \A i \in 1..Len(hist) : BatchTokens(hist[i]) # <<>>
  /\ Handed(hist) = Expected

\* The bytes a command line takes: each string and its terminator, and a
\* pointer for each when the size limit is the computed one.
RECURSIVE ByteCost(_, _)
ByteCost(argv, fs) ==
  IF argv = <<>> THEN 0
  ELSE Len(Head(argv)) + 1 + (IF fs THEN 0 ELSE PtrSize) + ByteCost(Tail(argv), fs)

\* C2: a command line that was run never costs more bytes than TT.s.
C2_SizeRespected ==
  \A i \in 1..Len(hist) :
    hist[i].ran => ByteCost(hist[i].argv, FLAG(toys, "s")) <= TT.s

\* A command line that was run costs exactly TT.s bytes.
C2_SizeReached ==
  \E i \in 1..Len(hist) :
    /\ hist[i].ran
    /\ BatchTokens(hist[i]) # <<>>
    /\ ByteCost(hist[i].argv, FLAG(toys, "s")) = TT.s

\* C3: with -n set, a command line that was run appends at most TT.n tokens.
C3_CountRespected ==
  \A i \in 1..Len(hist) :
    (hist[i].ran /\ TT.n # 0) => Len(BatchTokens(hist[i])) <= TT.n

\* With -n 2 a command line that was run took its two tokens from two
\* input lines, and with -n 1 the second of two tokens of one line was run
\* in a command line of its own.
C3_CountReached ==
  \/ /\ TT.n = 2
     /\ \E i \in 1..Len(hist) : hist[i].ran /\ Len(BatchTokens(hist[i])) = 2
     /\ input = <<"a", "NL", "a">>
  \/ /\ TT.n = 1
     /\ Len(hist) = 2
     /\ hist[2].ran /\ Len(BatchTokens(hist[2])) = 1
     /\ input = <<"a", "SP", "a">>

RECURSIVE TokenEnd(_, _, _)
\* The index of the last byte of the k-th token from i on (whitespace mode).
TokenEnd(in, i, k) ==
  LET start == RunEnd(in, i, TRUE)
      end == RunEnd(in, start, FALSE)
  IN IF k = 1 THEN end - 1 ELSE TokenEnd(in, end, k - 1)

RECURSIVE LineEnd(_, _)
\* The index of the first newline from i on, Len(in)+1 when there is none.
LineEnd(in, i) == IF i > Len(in) \/ in[i] = "NL" THEN i ELSE LineEnd(in, i + 1)

\* The number of input bytes after the line that holds the first stop token.
UnreadAfterStop ==
  LET nl == LineEnd(input, TokenEnd(input, 1, FirstOf(StopAt)))
  IN IF nl > Len(input) THEN 0 ELSE Len(input) - nl

\* The tokens of the command line made up and not yet answered for.
Pending ==
  IF pc \in {"confirm", "fork"}
  THEN LET argv == Argv(out[1], toys, dlist) IN SubSeq(argv, toys.optc + 1, Len(argv))
  ELSE <<>>

\* C4: when the input holds a token equal to the stop string, no byte after
\* that token's line is ever read, the command lines hold only tokens that
\* come before it, and once it is met (done is raised) the batch at hand
\* completes those tokens and the loop is not entered again.
C4_StopEndsInput ==
  StopAt # {} =>
    LET got == Handed(hist) \o Pending
        all == Expected
    IN /\ Len(stdin) >= UnreadAfterStop
       /\ IsPrefix(got, all)
       /\ \A i \in 1..Len(got) : got[i] # TT.E[1]
       /\ done >= 1 => (pc # "loop" /\ data = NULL /\ (errmsg = "" => got = all))

\* The stop token was left over from a batch that -n 1 had filled, and was
\* met at the start of the next turn: one command line, and the end.
C4_StopDeferred ==
  /\ input = <<"a", "SP", "b">>
  /\ TT.E = <<(<<"b">>)>>
  /\ TT.n = 1
  /\ Finished
  /\ done = 1
  /\ Len(hist) = 1
  /\ BatchTokens(hist[1]) = <<(<<"a">>)>>

\* C5: a child that exits with 126, 127 or 255 is the last one: xargs_main
\* has returned, with exit value 126, 127 and 124.
C5_FatalEndsRun ==
  \A i \in 1..Len(hist) :
    Fatal(hist[i]) =>
      /\ i = Len(hist)
      /\ pc = "done"
      /\ toys.exitval = (IF hist[i].code = 255 THEN 124 ELSE hist[i].code)

\* A child ended the run while a left over token or unread input remained.
C5_FatalWithInputLeft ==
  /\ CutShort
  /\ pc = "done"
  /\ data # NULL

\* The child failed without ending the run: exit 1..125, or a signal.
Failed(h) == h.ran /\ ((h.exited /\ h.code >= 1 /\ h.code <= 125) \/ ~h.exited)

RECURSIVE ZeroRun(_, _, _, _)
\* The command lines of the run in which every child exits with 0: the
\* turns of the loop, from the input left, the left over string, done and pid.
ZeroRun(stream, d, dn, p) ==
  LET rd == ReadLoop([TT EXCEPT !.entries = 0, !.bytes = bytes], toys, stream, <<>>, d, dn)
      way == EmptyBatch(rd.TT, toys, rd.data, p)
      f == FillPass([rd.TT EXCEPT !.entries = 0, !.bytes = bytes], toys, rd.dlist,
                    Alloc(entries, rd.TT.entries), entries, 1, FALSE)
  IN IF way # "fill" THEN <<>>
     ELSE <<Argv(f.out, toys, f.dlist)>>
          \o (IF LoopCond(rd.data, rd.done) THEN ZeroRun(rd.stdin, rd.data, rd.done, 1)
              ELSE <<>>)

\* C6: when xargs_main has ended after some child failed, and every command
\* line was run, the command lines are those of the run in which every
\* child exits with 0; a child exit of 126, 127 or 255 alone cuts the
\* sequence short. A failed child changes the exit value only.
C6_FailureGoesOn ==
  (/\ pc \in {"done", "exit"}
   /\ \A i \in 1..Len(hist) : hist[i].ran
   /\ \E i \in 1..Len(hist) : Failed(hist[i])) =>
    LET ran == [i \in 1..Len(hist) |-> hist[i].argv]
        ref == ZeroRun(input, NULL, 0, 0)
    IN IF CutShort THEN IsPrefix(ran, ref) ELSE ran = ref

\* A child failed and a later command line was run all the same.
C6_RanAfterFailure ==
  /\ Finished
  /\ Len(hist) >= 2
  /\ Failed(hist[1])
  /\ hist[2].ran
  /\ BatchTokens(hist[2]) # <<>>

\* Every child of the run exited with 0.
AllZero == \A i \in 1..Len(hist) : hist[i].ran => (hist[i].exited /\ hist[i].code = 0)

\* C7: when xargs_main returns, the exit value is 0 exactly when every child
\* exited with 0. (Fails: an exit of 128..254 leaves the exit value alone.)
C7_ZeroIffAllZero == pc = "done" => (toys.exitval = 0 <=> AllZero)

\* The child exited with a code in 1..125.
Exit1to125(h) == h.ran /\ h.exited /\ h.code >= 1 /\ h.code <= 125
\* The child was ended by a signal.
Killed(h) == h.ran /\ ~h.exited

\* C8 as stated: a run not ended by 126, 127 or 255 in which some child
\* exited with 1..125 returns 123. (Fails: a child killed by a signal later
\* on sets 127.)
C8_Always123 ==
  (Finished /\ \E i \in 1..Len(hist) : Exit1to125(hist[i])) => toys.exitval = 123

\* C8, amended: a run not ended by 126, 127 or 255, in which some child
\* exited with 1..125 and no child was ended by a signal, returns 123,
\* whatever the children before and after exited with.
C8_123WithoutSignal ==
  (/\ Finished
   /\ \E i \in 1..Len(hist) : Exit1to125(hist[i])
   /\ \A i \in 1..Len(hist) : ~Killed(hist[i])) => toys.exitval = 123

\* A child that exits with 1, then a child that exits with 0: 123.
C8_FailedThenFine ==
  /\ Finished
  /\ Len(hist) >= 2
  /\ Exit1to125(hist[1])
  /\ hist[2].ran /\ hist[2].exited /\ hist[2].code = 0
  /\ toys.exitval = 123

\* The input holds nothing but delimiters: whitespace, or NULs under -0.
OnlyDelimiters ==
  \A i \in 1..Len(input) :
    input[i] \in (IF FLAG(toys, "0") THEN {"NUL"} ELSE {"SP", "NL"})

Ran == {i \in 1..Len(hist) : hist[i].ran}
Declined == {i \in 1..Len(hist) : ~hist[i].ran}

\* C9 as stated, for runs in which no command line was declined: on input
\* of delimiters only, one child with the bare template without -r, none
\* with -r. (Fails: under -0 each NUL ends an empty token.)
C9_OnlyDelimiters ==
  (pc = "done" /\ OnlyDelimiters /\ Declined = {}) =>
    IF FLAG(toys, "r") THEN Ran = {}
    ELSE Len(hist) = 1 /\ hist[1].ran /\ hist[1].argv = toys.optargs

\* C9, amended: on input that holds no token (the empty stream, or in
\* whitespace mode whitespace only) the run ends without error; with -r no
\* command line is made up; without -r exactly one is, the bare template,
\* and it is run unless -p is set and the answer is no.
C9_TokenFree ==
  InputTokens = <<>> =>
    /\ pc # "exit"
    /\ Len(hist) <= 1
    /\ pc = "done" =>
         IF FLAG(toys, "r") THEN hist = <<>>
         ELSE /\ Len(hist) = 1
              /\ hist[1].argv = toys.optargs
              /\ (~FLAG(toys, "p") => hist[1].ran)

\* Whitespace only, no -r: the bare template was run once.
C9_BareTemplateRan ==
  /\ pc = "done"
  /\ input # <<>>
  /\ InputTokens = <<>>
  /\ ~FLAG(toys, "r")
  /\ Len(hist) = 1
  /\ hist[1].ran
  /\ hist[1].argv = <<Echo>>

\* The tokens longer than the size limit, among all input tokens and among
\* those before the first stop token.
HugeIn(toks) == {i \in 1..Len(toks) : Len(toks[i]) > TT.s}

Charge(tok) ==
  Len(tok) + 1 + (IF FLAG(toys, "0") THEN PtrSize
                  ELSE IF FLAG(toys, "s") THEN 0 ELSE PtrSize + 1)

RECURSIVE ChargeAll(_)
ChargeAll(toks) == IF toks = <<>> THEN 0 ELSE Charge(Head(toks)) + ChargeAll(Tail(toks))

\* The j-th run of TT.n tokens of the input, the last one shorter.
Group(j) ==
  LET k == Len(InputTokens)
      last == IF j * TT.n < k THEN j * TT.n ELSE k
  IN SubSeq(InputTokens, (j - 1) * TT.n + 1, last)

\* ceil(k / TT.n)
Groups == (Len(InputTokens) + TT.n - 1) \div TT.n

\* No run of TT.n tokens reaches the size limit.
NoSizeHit == \A j \in 1..Groups : bytes + ChargeAll(Group(j)) < TT.s

\* C11: with -n set, k >= 1 input tokens, no stop token, no run of n tokens
\* reaching the size limit, no command line declined and every child
\* exiting with 0, a finished run made ceil(k/n) command lines: the j-th
\* holds the j-th run of n tokens, the last one what is left, and none is
\* the bare template.
C11_CeilBatches ==
  (/\ TT.n # 0
   /\ Finished
   /\ Declined = {}
   /\ AllZero
   /\ StopAt = {}
   /\ InputTokens # <<>>
   /\ NoSizeHit) =>
    /\ Len(hist) = Groups
    /\ \A j \in 1..Len(hist) : BatchTokens(hist[j]) = Group(j)

\* Three tokens with -n 2 made two command lines, of two tokens and of one;
\* or one token and a newline with -n 1 made one command line.
C11_TwoThenOne ==
  /\ TT.n # 0
  /\ Finished
  /\ AllZero
  /\ Declined = {}
  /\ NoSizeHit
  /\ \/ /\ TT.n = 2
        /\ Len(InputTokens) = 3
        /\ Len(hist) = 2
        /\ Len(BatchTokens(hist[1])) = 2
        /\ Len(BatchTokens(hist[2])) = 1
     \/ /\ TT.n = 1
        /\ input = <<"a", "NL">>
        /\ Len(hist) = 1
        /\ BatchTokens(hist[1]) = <<(<<"a">>)>>

\* C12: no step of xargs_main lowers the exit value. (Fails: a child that
\* exits with 1..125 after one that a signal ended takes 127 down to 123.)
C12_NeverLowered == [][toys'.exitval >= toys.exitval]_vars

\* The token at the head of the left over string.
Refused == IF FLAG(toys, "0") THEN data[1] ELSE Head(WsTokens(data[1]))

\* Has the command line h all the tokens -n allows.
FullByCount(h) == TT.n # 0 /\ Len(BatchTokens(h)) >= TT.n

RECURSIVE PlainCost(_)
\* The bytes of tokens and their terminators, with no pointer counted.
PlainCost(toks) == IF toks = <<>> THEN 0 ELSE Len(Head(toks)) + 1 + PlainCost(Tail(toks))

\* C13, for -s: a token of length L costs L+1 in both modes, so a command
\* line is followed by another only when it is full by count or its cost
\* with the next token reaches TT.s, and "argument too long" is raised only
\* for a token that does not fit next to the template. (Fails: under -0 line
\* 83 adds sizeof(char *) for every token, with -s as without.)
C13_PlainCostUnderS ==
  FLAG(toys, "s") =>
    /\ \A i \in 1..(Len(hist) - 1) :
         BatchTokens(hist[i + 1]) # <<>> =>
           \/ FullByCount(hist[i])
           \/ bytes + PlainCost(BatchTokens(hist[i]))
                + PlainCost(<<Head(BatchTokens(hist[i + 1]))>>) >= TT.s
    /\ pc = "exit" => bytes + PlainCost(<<Refused>>) >= TT.s

\* The batches made up so far: those answered for and the one at hand.
Batches ==
  [i \in 1..Len(hist) |-> BatchTokens(hist[i])]
    \o (IF pc \in {"confirm", "fork"} THEN <<Pending>> ELSE <<>>)

\* C14: a batch that is followed by another is full by count or is taken
\* to the size limit, by the bytes handle_entries charges, by the first
\* token of the next batch; and the token at the head of the left over
\* string is the input token that comes right after the batches made up.
\* (Fails: after a command line was declined under -p, pid is still 0 and a
\* batch with no token at all can follow.)
C14_Greedy ==
  LET bs == Batches IN
  /\ \A i \in 1..(Len(bs) - 1) :
       /\ bs[i + 1] # <<>>
       /\ \/ TT.n # 0 /\ Len(bs[i]) >= TT.n
          \/ bytes + ChargeAll(bs[i]) + Charge(Head(bs[i + 1])) >= TT.s
  /\ (data # NULL /\ pc # "loop") =>
       LET got == Handed(hist) \o Pending
       IN /\ Len(got) < Len(InputTokens)
          /\ InputTokens[Len(got) + 1] = Refused

\* C15: when a command line is filled out, the fill pass counted as many
\* entries as the vector was allocated for, no store fell outside the
\* vector, the vector is the template, then one pointer for each entry,
\* then the end marker, and the strings it points at are the template and
\* the next TT.entries input tokens in order.
C15_VectorExact ==
  /\ ~overrun
  /\ pc \in {"confirm", "fork"} =>
       LET o == out[1]
           got == Handed(hist)
       IN /\ Len(o) = entries + TT.entries + 1
          /\ o[Len(o)] = NullPtr
          /\ \A i \in 1..entries : o[i] = OptPtr(i)
          /\ \A i \in (entries + 1)..(Len(o) - 1) : o[i].seg = "dlist"
          /\ Len(got) + TT.entries <= Len(Expected)
          /\ Argv(o, toys, dlist)
               = toys.optargs \o SubSeq(Expected, Len(got) + 1, Len(got) + TT.entries)

\* A vector of the template, two tokens taken from two buffered lines, and
\* the end marker.
C15_TwoLinesFilled ==
  /\ pc = "fork"
  /\ Len(dlist) = 2
  /\ TT.entries = 2
  /\ Len(out[1]) = 4
  /\ out[1][2] = LinePtr(1, 1)
  /\ out[1][3] = LinePtr(2, 1)
  /\ out[1][4] = NullPtr

\* C16: when xargs_main has returned, no buffered line and no argument
\* vector is held. (Fails: the returns of lines 153, 189 and 195 and the
\* continue of line 154 do not pass through the skip: block.)
C16_NothingHeldAtDone == pc = "done" => (dlist = <<>> /\ out = NULL)

\* What is left to deal with: the unread input, the left over string, and
\* the end of input not yet met.
Remaining ==
  2 * Len(stdin) + (IF data = NULL THEN 0 ELSE Len(data[1]) + 1)
    + (IF done = 0 THEN 1 ELSE 0)

\* A number that every step of xargs_main takes down: what is left, then
\* the place in the turn of the loop.
Variant ==
  4 * Remaining + (CASE pc = "loop" -> 0
                     [] pc = "confirm" -> 3
                     [] pc = "fork" -> 2
                     [] OTHER -> -1)

\* C17: every step takes Variant down and Variant is never below -1, so
\* the turns of the loop are finitely many; a turn that leaves a left over
\* string either put at least one entry in its batch or ended the run with
\* "argument too long"; and where xargs_main has neither returned nor
\* exited it stands at the loop, at the prompt or at the fork, each of which
\* has its step (the tty answers and every child ends).
C17_LoopEnds ==
  /\ [][/\ Variant' < Variant
        /\ (pc = "loop" /\ data' # NULL)
             => \/ TT'.entries >= 1 /\ pc' \in {"confirm", "fork"}
                \/ pc' = "exit" /\ errmsg' = "argument too long"]_vars
  /\ [](/\ Variant >= -1
        /\ pc \in {"loop", "confirm", "fork", "done", "exit"}
        /\ pc = "loop" => LoopCond(data, done)
        /\ pc \in {"confirm", "fork"} => out # NULL)

\* xargs_main returned after three turns of the loop, two of which left a
\* token over.
C17_EndedAfterLeftOvers ==
  /\ pc = "done"
  /\ Len(hist) = 3
  /\ \A i \in 1..3 : Len(BatchTokens(hist[i])) = 1
  /\ \A i \in 1..Len(input) : input[i] # "NL"

\* C18: when the input holds a token before its end or the stop token, no
\* command line is made up, put to the tty or run with no token appended.
\* (Fails: pid is 0 until a child is forked, so after command lines that
\* were all declined under -p line 153 does not return.)
C18_NoBareBatch ==
  Expected # <<>> => \A i \in 1..Len(Batches) : Batches[i] # <<>>

\* C19: the step that answers no at the prompt forks no child (pid and the
\* exit value stay as they are), records the command line as not run,
\* frees the buffered lines and the vector, reads nothing, and goes to the
\* loop test with the left over string as it was; and the tokens of the
\* command lines made up, declined ones included, go on through the input
\* tokens in order, so that no declined token comes back in a later batch.
C19_DeclinedIsDropped ==
  /\ [][(pc = "confirm" /\ pc' # "fork") =>
          /\ toys' = toys
          /\ pid' = pid
          /\ Len(hist') = Len(hist) + 1
          /\ ~hist'[Len(hist')].ran
          /\ BatchTokens(hist'[Len(hist')]) = Pending
          /\ dlist' = <<>>
          /\ out' = NULL
          /\ stdin' = stdin
          /\ data' = data
          /\ pc' = LoopTest(data, done)]_vars
  /\ [](FLAG(toys, "p") => IsPrefix(Handed(hist) \o Pending, Expected))

\* A command line was declined, and the next one, made up of the tokens
\* that follow, was run: the exit value is that of its child alone.
C19_DeclinedThenRan ==
  /\ Len(hist) = 2
  /\ ~hist[1].ran
  /\ BatchTokens(hist[1]) # <<>>
  /\ hist[2].ran
  /\ BatchTokens(hist[2]) # <<>>
  /\ BatchTokens(hist[1]) \o BatchTokens(hist[2]) = Expected
  /\ hist[2].exited /\ hist[2].code = 1
  /\ toys.exitval = 123

====
